---- MODULE Spec2Model ----
(***************************************************************************)
(* Model of V3LpValue (src/src/lp_value_calc.ts): the valuation of a       *)
(* Uniswap V3 liquidity position at a block.                               *)
(*                                                                         *)
(* Numbers.  decimal.js Decimals and JavaScript Numbers are both floating  *)
(* point values.  A value is the pair <<m, e>>, standing for m * 10^e,     *)
(* kept in the normal form "m is not a multiple of 10, zero is <<0, 0>>",  *)
(* and every operation rounds its result to a number of significant       *)
(* digits: DecPrecision for a Decimal, NumPrecision for a Number.  The     *)
(* precisions are far below the real ones (20 digits, 53 bits) so that     *)
(* every intermediate product fits a 32-bit integer; for the same reason   *)
(* the fixed-point scale is 2^X96Bits instead of 2^96 and one tick         *)
(* multiplies the price by TickBaseSqrt^2 instead of 1.0001.  The shape of *)
(* every formula, every comparison and the order of the operations are     *)
(* those of the source.                                                    *)
(***************************************************************************)
EXTENDS Integers, Sequences, FiniteSets, TLC

\* ------------------------------------------------------------------------
\* Bounds of the model
\* ------------------------------------------------------------------------

\* the ticks of a position lie in -MaxTick .. MaxTick
MaxTick == 2
\* a position's liquidity lies in -1 .. MaxLiquidity (-1: a malformed read)
MaxLiquidity == 2
\* the decimals handed to the decimal adjustment lie in 0 .. MaxDecimals
MaxDecimals == 18
\* token amounts handed to calculateV3Liquidity: 0 .. MaxAmount
MaxAmount == 3
\* square-root prices handed to calculateV3Liquidity: halves, 0 .. MaxSqrtHalves / 2
MaxSqrtHalves == 4
\* the chain's head block is at most MaxHead
MaxHead == 2
\* every block carries one of the market states 1 .. NumMarkets
NumMarkets == 2
\* the fee simulation returns 0 .. MaxFee raw units owed of each token
MaxFee == 1
\* a token of the valuation call has 0 or TokenDecimals decimals
TokenDecimals == 1

\* ------------------------------------------------------------------------
\* Floating point arithmetic (decimal.js Decimal, JavaScript Number)
\* ------------------------------------------------------------------------

\* significant digits of a Decimal (decimal.js: 20)
DecPrecision == 4
\* significant digits of a Number (IEEE double: 53 bits, about 16 digits)
NumPrecision == 3

RECURSIVE Pow10(_)
Pow10(n) == IF n <= 0 THEN 1 ELSE 10 * Pow10(n - 1)

Abs(x) == IF x < 0 THEN -x ELSE x

RECURSIVE Digits(_)
\* number of decimal digits of a natural number (0 has none)
Digits(n) == IF n = 0 THEN 0 ELSE 1 + Digits(n \div 10)

RECURSIVE Strip(_, _)
\* the normal form of m * 10^e
Strip(m, e) ==
    IF m = 0 THEN <<0, 0>>
    ELSE IF m % 10 = 0 THEN Strip(m \div 10, e + 1)
    ELSE <<m, e>>

\* m * 10^e rounded half up to p significant digits
RoundTo(p, m, e) ==
    LET a == Abs(m)
        k == Digits(a) - p
    IN  IF k <= 0 THEN Strip(m, e)
        ELSE LET q == (a + 5 * Pow10(k - 1)) \div Pow10(k)
             IN  Strip(IF m < 0 THEN -q ELSE q, e + k)

Zero == <<0, 0>>
One == <<1, 0>>
FromInt(n) == Strip(n, 0)
Neg(a) == <<-a[1], a[2]>>

FMul(p, a, b) == RoundTo(p, a[1] * b[1], a[2] + b[2])

\* a / b for b # 0: the dividend is scaled to nine digits first
FDiv(p, a, b) ==
    IF a[1] = 0 THEN Zero
    ELSE LET t == 9 - Digits(Abs(a[1]))
             q == (Abs(a[1]) * Pow10(t)) \div Abs(b[1])
             s == IF (a[1] < 0) = (b[1] < 0) THEN q ELSE -q
         IN  RoundTo(p, s, a[2] - t - b[2])

\* a + b: the operand of the larger exponent is scaled up to at most nine
\* digits, the other one is cut to the same unit
FAdd(p, a, b) ==
    IF a[1] = 0 THEN RoundTo(p, b[1], b[2])
    ELSE IF b[1] = 0 THEN RoundTo(p, a[1], a[2])
    ELSE LET hi == IF a[2] >= b[2] THEN a ELSE b
             lo == IF a[2] >= b[2] THEN b ELSE a
             d == hi[2] - lo[2]
             room == 9 - Digits(Abs(hi[1]))
             s == IF d <= room THEN d ELSE room
             cut == d - s
             lom == IF cut = 0 THEN lo[1]
                    ELSE IF cut > 9 THEN 0
                    ELSE IF lo[1] < 0 THEN -(Abs(lo[1]) \div Pow10(cut))
                    ELSE lo[1] \div Pow10(cut)
         IN  RoundTo(p, hi[1] * Pow10(s) + lom, lo[2] + cut)

FSub(p, a, b) == FAdd(p, a, Neg(b))

\* comparisons are exact: nine digits decide the sign of a difference
FLt(a, b) == FSub(9, a, b)[1] < 0
FLeq(a, b) == FSub(9, a, b)[1] <= 0
FGeq(a, b) == FLeq(b, a)
FGt(a, b) == FLt(b, a)
FMin(a, b) == IF FLt(b, a) THEN b ELSE a

RECURSIVE ISqrtIn(_, _, _)
\* the integer square root of n, searched in lo .. hi
ISqrtIn(n, lo, hi) ==
    IF lo >= hi THEN lo
    ELSE LET mid == (lo + hi + 1) \div 2
         IN  IF mid * mid <= n THEN ISqrtIn(n, mid, hi)
             ELSE ISqrtIn(n, lo, mid - 1)

\* the square root of a >= 0
FSqrt(p, a) ==
    IF a[1] = 0 THEN Zero
    ELSE LET room == 9 - Digits(a[1])
             j == IF (a[2] - room) % 2 = 0 THEN room ELSE room - 1
             r == ISqrtIn(a[1] * Pow10(j), 0, 31622)
         IN  RoundTo(p, r, (a[2] - j) \div 2)

RECURSIVE FPowNat(_, _, _)
\* b^n for a natural number n
FPowNat(p, b, n) == IF n = 0 THEN One ELSE FMul(p, b, FPowNat(p, b, n - 1))

\* b^n for an integer n (Decimal.pow)
FPow(p, b, n) ==
    IF n >= 0 THEN FPowNat(p, b, n) ELSE FDiv(p, One, FPowNat(p, b, -n))

\* Number(d.toString()): a Decimal read as a Number keeps NumPrecision digits
ToNumber(d) == RoundTo(NumPrecision, d[1], d[2])

\* ------------------------------------------------------------------------
\* Fixed-point price math of getPositionAmounts and getTokenPriceFromPool
\* ------------------------------------------------------------------------

\* bits of the fixed-point encoding of slot0.sqrtPriceX96 (96 in the source);
\* raising it refines the grid of square-root prices a pool can be at
X96Bits == 3
\* new Decimal(2).pow(96)
Q96 == FPow(DecPrecision, <<2, 0>>, X96Bits)
\* the square root of the price ratio of one tick: new Decimal(1.0001) is
\* raised to tick / 2, the model's ratio is 1.21 per tick, 1.1 per half tick
TickBaseSqrt == <<11, -1>>

\* sqrtPriceX96.div(new Decimal(2).pow(96))
DecodeSqrtPrice(sqrtPriceX96) == FDiv(DecPrecision, FromInt(sqrtPriceX96), Q96)

\* new Decimal(1.0001).pow(tick / 2)
SqrtPriceAtTick(tick) == FPow(DecPrecision, TickBaseSqrt, tick)

\* the branch of getPositionAmounts: the pool's tick against the position's
PositionBranch(currentTick, tickLower, tickUpper) ==
    IF currentTick < tickLower THEN "below"
    ELSE IF currentTick > tickUpper THEN "above"
    ELSE "within"

\* getPositionAmounts, from the values read to the amounts returned
PositionAmounts(liquidity, tickLower, tickUpper, sqrtPriceX96, currentTick) ==
    LET L == FromInt(liquidity)
        sqrtPriceCurrent == DecodeSqrtPrice(sqrtPriceX96)
        sqrtPriceLower == SqrtPriceAtTick(tickLower)
        sqrtPriceUpper == SqrtPriceAtTick(tickUpper)
        branch == PositionBranch(currentTick, tickLower, tickUpper)
        amount0 ==
            IF branch = "below"
            THEN FMul(DecPrecision, L,
                      FSub(DecPrecision, FPow(DecPrecision, sqrtPriceLower, -1),
                                         FPow(DecPrecision, sqrtPriceUpper, -1)))
            ELSE IF branch = "above" THEN Zero
            ELSE FMul(DecPrecision, L,
                      FSub(DecPrecision, FPow(DecPrecision, sqrtPriceCurrent, -1),
                                         FPow(DecPrecision, sqrtPriceUpper, -1)))
        amount1 ==
            IF branch = "below" THEN Zero
            ELSE IF branch = "above"
            THEN FMul(DecPrecision, L, FSub(DecPrecision, sqrtPriceUpper, sqrtPriceLower))
            ELSE FMul(DecPrecision, L, FSub(DecPrecision, sqrtPriceCurrent, sqrtPriceLower))
    IN  [amount0 |-> ToNumber(amount0), amount1 |-> ToNumber(amount1),
         branch |-> branch]

\* new Decimal('1' + '0'.repeat(n)): the digit 1 followed by n zeros
PowerOfTenString(n) == <<1, n>>

\* the decimal adjustment of getTokenPriceFromPool
\* the adjustment with the sign of decimalDiff ignored
AdjustAlwaysMultiplies(price, decimals0, decimals1) ==
    FMul(DecPrecision, price, PowerOfTenString(Abs(decimals0 - decimals1)))

AdjustForDecimals(price, decimals0, decimals1) ==
    LET decimalDiff == decimals0 - decimals1
        decimalAdjustment == PowerOfTenString(Abs(decimalDiff))
    IN  IF decimalDiff >= 0
        THEN FMul(DecPrecision, price, decimalAdjustment)
        ELSE FDiv(DecPrecision, price, decimalAdjustment)

\* sqrtPrice.mul(sqrtPrice) of getTokenPriceFromPool
RawPrice(sqrtPriceX96) ==
    LET sqrtPrice == DecodeSqrtPrice(sqrtPriceX96)
    IN  FMul(DecPrecision, sqrtPrice, sqrtPrice)

\* getTokenPriceFromPool, from the values read to the price returned
TokenPrice(sqrtPriceX96, decimals0, decimals1) ==
    ToNumber(AdjustForDecimals(RawPrice(sqrtPriceX96), decimals0, decimals1))

\* ------------------------------------------------------------------------
\* Number math of calculateLpValue
\* ------------------------------------------------------------------------

NMul(a, b) == FMul(NumPrecision, a, b)
NDiv(a, b) == FDiv(NumPrecision, a, b)
NAdd(a, b) == FAdd(NumPrecision, a, b)
NSub(a, b) == FSub(NumPrecision, a, b)
NSqrt(a) == FSqrt(NumPrecision, a)
\* 10 ** n
NPow10(n) == <<1, n>>

\* Math.min(lx, ly)
\* the larger of the two implied liquidities
MathMax(lx, ly) == IF FLeq(lx, ly) THEN ly ELSE lx

MathMin(lx, ly) == FMin(lx, ly)

\* calculateV3Liquidity
CalculateV3Liquidity(amountX, amountY, sqrtPriceCurrent, sqrtPriceLower, sqrtPriceUpper) ==
    IF FLeq(sqrtPriceCurrent, sqrtPriceLower)
    THEN NDiv(NMul(amountX, NMul(sqrtPriceUpper, sqrtPriceLower)),
              NSub(sqrtPriceUpper, sqrtPriceLower))
    ELSE IF FGeq(sqrtPriceCurrent, sqrtPriceUpper)
    THEN NDiv(amountY, NSub(sqrtPriceUpper, sqrtPriceLower))
    ELSE LET lx == NDiv(NMul(amountX, NMul(sqrtPriceUpper, sqrtPriceCurrent)),
                        NSub(sqrtPriceUpper, sqrtPriceCurrent))
             ly == NDiv(amountY, NSub(sqrtPriceCurrent, sqrtPriceLower))
         IN  MathMin(lx, ly)

\* calculatePositionValue
CalculatePositionValue(liquidity, currentPrice, tokenXPriceUsd, tokenYPriceUsd) ==
    LET amountX == NDiv(liquidity, NSqrt(currentPrice))
        amountY == NMul(liquidity, NSqrt(currentPrice))
    IN  NAdd(NMul(amountX, tokenXPriceUsd), NMul(amountY, tokenYPriceUsd))

\* feeValue of calculateLpValue
FeeValue(feeX, feeY, tokenXUPrice, tokenYUPrice, decimals0, decimals1) ==
    NAdd(NDiv(NMul(feeX, tokenXUPrice), NPow10(decimals0)),
         NDiv(NMul(feeY, tokenYUPrice), NPow10(decimals1)))

\* ------------------------------------------------------------------------
\* The pool's state as the chain keeps it
\* ------------------------------------------------------------------------

\* the raw square-root prices a pool can be at: 0.75 .. 1.5 in steps of
\* 1 / 2^X96Bits
RawSqrtPrices == (3 * Q96[1] * Pow10(Q96[2])) \div 4 .. (3 * Q96[1] * Pow10(Q96[2])) \div 2

RECURSIVE FloorTickFrom(_, _)
FloorTickFrom(sqrtPrice, tick) ==
    IF FLt(sqrtPrice, SqrtPriceAtTick(tick + 1)) THEN tick
    ELSE FloorTickFrom(sqrtPrice, tick + 1)

\* slot0.tick: the pool contract keeps it the greatest tick whose price is
\* at most the current price
TickOf(sqrtPriceX96) == FloorTickFrom(DecodeSqrtPrice(sqrtPriceX96), -5)

\* ------------------------------------------------------------------------
\* State
\* ------------------------------------------------------------------------

VARIABLES
    \* the pure functions, applied to drawn inputs
    fn,             \* the function applied: "amounts", "adjust", "liquidity", "none"
    args,           \* its arguments
    ret,            \* its result, NoReturn before the application
    \* the chain (ChainStateProvider)
    head,           \* the latest block
    chain,          \* block -> market state of that block
    position,       \* positions(positionId): liquidity, tickLower, tickUpper
    dec,            \* token -> decimals()
    \* the V3LpValue instance
    priceLower,     \* this.priceLower
    priceUpper,     \* this.priceUpper
    \* one calculateLpValue call
    pc,             \* the await the call is suspended at
    call,           \* its arguments: blockNumber, poolXUAddress, poolYUAddress
    cur,            \* the pool getTokenPriceFromPool is reading
    loc,            \* its local variables
    res,            \* the PositionValue it returned
    \* history of the call, read by the properties only
    seen,           \* the blocks its chain reads were served at
    priceBlock,     \* the block its read of the valued pool's price was served at
    failures,       \* the reads that failed
    rangeAtStart    \* <<priceLower, priceUpper>> when the call started

mathVars == <<fn, args, ret>>
chainVars == <<head, chain, position, dec>>
callVars == <<pc, call, cur, loc, res, seen, priceBlock, failures, rangeAtStart>>
vars == <<fn, args, ret, head, chain, position, dec, priceLower, priceUpper,
          pc, call, cur, loc, res, seen, priceBlock, failures, rangeAtStart>>

\* blockNumber?: number left out
NoBlock == -1
NoReturn == [none |-> TRUE]

\* public priceLower: number = 0
DefaultPriceLower == Zero
\* public priceUpper: number = 999999999999, at NumPrecision digits
DefaultPriceUpper == <<1, 12>>

\* the price windows the configuration sets (main: client.priceLower = ...)
ConfigRanges ==
    { <<DefaultPriceLower, DefaultPriceUpper>>,
      <<<<2, 0>>, <<4, 0>>>> }

Pools == {"pool", "xu", "yu"}
Tokens == {"X", "Y", "U"}
\* token0() and token1() of each pool
Token0Of(p) == IF p = "yu" THEN "Y" ELSE "X"
Token1Of(p) == IF p = "pool" THEN "Y" ELSE "U"

\* slot0().sqrtPriceX96 of pool p in market state m
RawOf(p, m) ==
    LET q == Q96[1] * Pow10(Q96[2])
    IN  IF p = "pool" THEN q + m - 1
        ELSE IF p = "xu" THEN q + m
        ELSE q - m

\* the positions the valuation call is run on: a well-formed one and one with
\* malformed tick bounds
CallPositions ==
    { [liquidity |-> 1, tickLower |-> -1, tickUpper |-> 1],
      [liquidity |-> 1, tickLower |-> 1, tickUpper |-> -1] }

\* decimals() of the tokens: the quote token U of the override pools has
\* TokenDecimals decimals, X and Y have none or TokenDecimals
DecimalMaps == {d \in [Tokens -> {0, TokenDecimals}] : d["U"] = TokenDecimals}

NoLocals ==
    [amountX |-> Zero, amountY |-> Zero, feeX |-> Zero, feeY |-> Zero,
     tokenPrice |-> Zero, decimals0 |-> 0, decimals1 |-> 0,
     tokenXUPrice |-> Zero, tokenYUPrice |-> Zero,
     token0 |-> "", token1 |-> "", d0 |-> 0, d1 |-> 0, value |-> NoReturn]

NoResult ==
    [blockNumber |-> NoBlock, tokenPrice |-> Zero, tokenXPrice |-> Zero,
     tokenYPrice |-> Zero, positionValue |-> Zero, unclaimedFees |-> Zero,
     totalValue |-> Zero]

\* ------------------------------------------------------------------------
\* The pure functions applied to drawn inputs
\* ------------------------------------------------------------------------

AmountsInputs ==
    { a \in [liquidity : -1 .. MaxLiquidity, tickLower : -MaxTick .. MaxTick,
             tickUpper : -MaxTick .. MaxTick, sqrtPriceX96 : RawSqrtPrices] : TRUE }

AdjustInputs ==
    [price : {RawPrice(r) : r \in RawSqrtPrices},
     decimals0 : 0 .. MaxDecimals, decimals1 : 0 .. MaxDecimals]

SqrtValues == {Strip(5 * n, -1) : n \in 0 .. MaxSqrtHalves}
AmountValues == {FromInt(n) : n \in 0 .. MaxAmount}

LiquidityInputs ==
    { a \in [amountX : AmountValues, amountY : AmountValues,
             sqrtPriceCurrent : SqrtValues, sqrtPriceLower : SqrtValues,
             sqrtPriceUpper : SqrtValues] :
        FLt(a.sqrtPriceLower, a.sqrtPriceUpper) }

CallInit ==
    /\ head = 1
    /\ chain = [b \in 0 .. 1 |-> 1]
    /\ position \in CallPositions
    /\ dec \in DecimalMaps
    /\ \E r \in ConfigRanges : priceLower = r[1] /\ priceUpper = r[2]
    /\ pc = "idle"
    /\ call = [blockNumber |-> NoBlock, poolXU |-> FALSE, poolYU |-> FALSE]
    /\ cur = "pool"
    /\ loc = NoLocals
    /\ res = NoResult
    /\ seen = {}
    /\ priceBlock = NoBlock
    /\ failures = {}
    /\ rangeAtStart = <<priceLower, priceUpper>>

CallIdle ==
    /\ head = 1
    /\ chain = [b \in 0 .. 1 |-> 1]
    /\ position = [liquidity |-> 1, tickLower |-> -1, tickUpper |-> 1]
    /\ dec = [t \in Tokens |-> 0]
    /\ priceLower = DefaultPriceLower
    /\ priceUpper = DefaultPriceUpper
    /\ pc = "idle"
    /\ call = [blockNumber |-> NoBlock, poolXU |-> FALSE, poolYU |-> FALSE]
    /\ cur = "pool"
    /\ loc = NoLocals
    /\ res = NoResult
    /\ seen = {}
    /\ priceBlock = NoBlock
    /\ failures = {}
    /\ rangeAtStart = <<priceLower, priceUpper>>

MathIdle == fn = "none" /\ args = NoReturn /\ ret = NoReturn

MathInit ==
    /\ ret = NoReturn
    /\ \/ fn = "amounts" /\ args \in AmountsInputs
       \/ fn = "adjust" /\ args \in AdjustInputs
       \/ fn = "liquidity" /\ args \in LiquidityInputs

\* getPositionAmounts on a position and a pool state whose tick is the floor
\* tick of its price
ApplyPositionAmounts ==
    /\ fn = "amounts" /\ ret = NoReturn
    /\ ret' = PositionAmounts(args.liquidity, args.tickLower, args.tickUpper,
                              args.sqrtPriceX96, TickOf(args.sqrtPriceX96))
    /\ UNCHANGED <<fn, args, chainVars, priceLower, priceUpper, callVars>>

\* the decimal adjustment with (decimals0, decimals1), then with (decimals1, decimals0)
ApplyAdjust ==
    /\ fn = "adjust" /\ ret = NoReturn
    /\ LET adjusted == AdjustForDecimals(args.price, args.decimals0, args.decimals1)
       IN  ret' = [adjusted |-> adjusted,
                   back |-> AdjustForDecimals(adjusted, args.decimals1, args.decimals0)]
    /\ UNCHANGED <<fn, args, chainVars, priceLower, priceUpper, callVars>>

ApplyV3Liquidity ==
    /\ fn = "liquidity" /\ ret = NoReturn
    /\ ret' = [liquidity |->
                 CalculateV3Liquidity(args.amountX, args.amountY, args.sqrtPriceCurrent,
                                      args.sqrtPriceLower, args.sqrtPriceUpper)]
    /\ UNCHANGED <<fn, args, chainVars, priceLower, priceUpper, callVars>>

MathNext == ApplyPositionAmounts \/ ApplyAdjust \/ ApplyV3Liquidity

\* the pure functions of the module on drawn inputs
InitMath == MathInit /\ CallIdle
SpecMath == InitMath /\ [][MathNext]_vars

\* ------------------------------------------------------------------------
\* calculateLpValue: one action per awaited read
\* ------------------------------------------------------------------------

\* const overrides = blockTag ? { blockTag } : {}: a read without a block tag
\* is served at the head
Truthy(blockNumber) == blockNumber # NoBlock /\ blockNumber # 0
ReadBlock == IF Truthy(call.blockNumber) THEN call.blockNumber ELSE head

\* the reads a try block encloses: only the fee simulation
\* a fee simulation outside any try block
CaughtNothing(read) == FALSE

\* a try block around the whole of getPositionAmounts
CaughtInGetPositionAmounts(read) == read \in {"positions", "slot0", "collect"}

Caught(read) == read = "collect"

\* calculateLpValue from the locals to the record it returns, less the block
Valuation(l, lower, upper) ==
    LET sqrtPriceCurrent == NSqrt(l.tokenPrice)
        sqrtPriceLower == NSqrt(lower)
        sqrtPriceUpper == NSqrt(upper)
        liquidity ==
            CalculateV3Liquidity(NDiv(l.amountX, NPow10(l.decimals0)),
                                 NDiv(l.amountY, NPow10(l.decimals1)),
                                 sqrtPriceCurrent, sqrtPriceLower, sqrtPriceUpper)
        positionValue ==
            CalculatePositionValue(liquidity, l.tokenPrice, l.tokenXUPrice, l.tokenYUPrice)
        feeValue ==
            FeeValue(l.feeX, l.feeY, l.tokenXUPrice, l.tokenYUPrice,
                     l.decimals0, l.decimals1)
    IN  [tokenPrice |-> l.tokenPrice, tokenXPrice |-> l.tokenXUPrice,
         tokenYPrice |-> l.tokenYUPrice, positionValue |-> positionValue,
         unclaimedFees |-> feeValue, totalValue |-> NAdd(positionValue, feeValue)]

\* the record returned, at block b
ResultAt(v, b) ==
    [blockNumber |-> b, tokenPrice |-> v.tokenPrice, tokenXPrice |-> v.tokenXPrice,
     tokenYPrice |-> v.tokenYPrice, positionValue |-> v.positionValue,
     unclaimedFees |-> v.unclaimedFees, totalValue |-> v.totalValue]

\* a read is rejected: inside a try block the catch returns the amounts with
\* zero fees and the call goes on at pc next; outside one the call is rejected
\* and its frames are gone
Rejected(read, next) ==
    /\ failures' = failures \cup {read}
    /\ IF Caught(read)
       THEN /\ loc' = [loc EXCEPT !.feeX = Zero, !.feeY = Zero]
            /\ pc' = next
            /\ cur' = cur
       ELSE /\ loc' = NoLocals
            /\ pc' = "failed"
            /\ cur' = "pool"
    /\ UNCHANGED <<res, seen, priceBlock>>

\* calculateLpValue is called: it runs to its first await
Start ==
    /\ pc = "idle"
    /\ \E b \in {NoBlock} \cup (0 .. head), xu \in BOOLEAN, yu \in BOOLEAN :
          call' = [blockNumber |-> b, poolXU |-> xu, poolYU |-> yu]
    /\ pc' = "positions"
    /\ rangeAtStart' = <<priceLower, priceUpper>>
    /\ UNCHANGED <<mathVars, chainVars, priceLower, priceUpper, cur, loc, res, seen,
                   priceBlock, failures>>

\* await nftContract.positions(positionId, overrides)
ReadPositions ==
    /\ pc = "positions"
    /\ \/ /\ seen' = seen \cup {ReadBlock}
          /\ pc' = "slot0"
          /\ UNCHANGED <<cur, loc, res, priceBlock, failures>>
       \/ Rejected("positions", "slot0")
    /\ UNCHANGED <<mathVars, chainVars, priceLower, priceUpper, call, rangeAtStart>>

\* await poolContract.slot0(overrides) of getPositionAmounts, and the amounts
ReadSlot0 ==
    /\ pc = "slot0"
    /\ \/ /\ seen' = seen \cup {ReadBlock}
          /\ LET sqrtPriceX96 == RawOf("pool", chain[ReadBlock])
                 a == PositionAmounts(position.liquidity, position.tickLower,
                                      position.tickUpper, sqrtPriceX96,
                                      TickOf(sqrtPriceX96))
             IN  loc' = [loc EXCEPT !.amountX = a.amount0, !.amountY = a.amount1]
          /\ pc' = "collect"
          /\ UNCHANGED <<cur, res, priceBlock, failures>>
       \/ Rejected("slot0", "collect")
    /\ UNCHANGED <<mathVars, chainVars, priceLower, priceUpper, call, rangeAtStart>>

\* await nftContract.collect.staticCall(collectParams, overrides), in the try block
ReadCollect ==
    /\ pc = "collect"
    /\ \/ /\ seen' = seen \cup {ReadBlock}
          /\ \E owed \in 0 .. MaxFee :
                loc' = [loc EXCEPT !.feeX = ToNumber(FromInt(owed)),
                                   !.feeY = ToNumber(FromInt(owed))]
          /\ pc' = "token0"
          /\ UNCHANGED <<cur, res, priceBlock, failures>>
       \/ Rejected("collect", "token0")
    /\ UNCHANGED <<mathVars, chainVars, priceLower, priceUpper, call, rangeAtStart>>

\* await poolContract.token0(overrides)
ReadToken0 ==
    /\ pc = "token0"
    /\ \/ /\ seen' = seen \cup {ReadBlock}
          /\ loc' = [loc EXCEPT !.token0 = Token0Of(cur)]
          /\ pc' = "token1"
          /\ UNCHANGED <<cur, res, priceBlock, failures>>
       \/ Rejected("token0", "token1")
    /\ UNCHANGED <<mathVars, chainVars, priceLower, priceUpper, call, rangeAtStart>>

\* await poolContract.token1(overrides)
ReadToken1 ==
    /\ pc = "token1"
    /\ \/ /\ seen' = seen \cup {ReadBlock}
          /\ loc' = [loc EXCEPT !.token1 = Token1Of(cur)]
          /\ pc' = "decimals0"
          /\ UNCHANGED <<cur, res, priceBlock, failures>>
       \/ Rejected("token1", "decimals0")
    /\ UNCHANGED <<mathVars, chainVars, priceLower, priceUpper, call, rangeAtStart>>

\* await token0Contract.decimals(overrides)
ReadDecimals0 ==
    /\ pc = "decimals0"
    /\ \/ /\ seen' = seen \cup {ReadBlock}
          /\ loc' = [loc EXCEPT !.d0 = dec[loc.token0]]
          /\ pc' = "decimals1"
          /\ UNCHANGED <<cur, res, priceBlock, failures>>
       \/ Rejected("decimals0", "decimals1")
    /\ UNCHANGED <<mathVars, chainVars, priceLower, priceUpper, call, rangeAtStart>>

\* await token1Contract.decimals(overrides)
ReadDecimals1 ==
    /\ pc = "decimals1"
    /\ \/ /\ seen' = seen \cup {ReadBlock}
          /\ loc' = [loc EXCEPT !.d1 = dec[loc.token1]]
          /\ pc' = "priceSlot0"
          /\ UNCHANGED <<cur, res, priceBlock, failures>>
       \/ Rejected("decimals1", "priceSlot0")
    /\ UNCHANGED <<mathVars, chainVars, priceLower, priceUpper, call, rangeAtStart>>

\* the locals once getTokenPriceFromPool has returned price for pool cur
WithPrice(l, price) ==
    LET own == IF cur = "pool"
               THEN [l EXCEPT !.tokenPrice = price, !.decimals0 = l.d0,
                              !.decimals1 = l.d1]
               ELSE l
        x == IF cur = "xu" THEN [own EXCEPT !.tokenXUPrice = price]
             ELSE IF cur = "pool" /\ ~call.poolXU
             THEN [own EXCEPT !.tokenXUPrice = own.tokenPrice]
             ELSE own
        y == IF cur = "yu" THEN [x EXCEPT !.tokenYUPrice = price]
             ELSE IF ~call.poolYU /\ (cur = "xu" \/ ~call.poolXU)
             THEN [x EXCEPT !.tokenYUPrice = One]
             ELSE x
    IN  [y EXCEPT !.token0 = "", !.token1 = "", !.d0 = 0, !.d1 = 0]

\* the pool getTokenPriceFromPool is called on next, "" when there is none
PoolAfter(p) ==
    IF p = "pool" /\ call.poolXU THEN "xu"
    ELSE IF p # "yu" /\ call.poolYU THEN "yu"
    ELSE ""

\* await poolContract.slot0(overrides) of getTokenPriceFromPool, and what
\* calculateLpValue does up to its next await
ReadPriceSlot0 ==
    /\ pc = "priceSlot0"
    /\ \/ /\ seen' = seen \cup {ReadBlock}
          /\ priceBlock' = IF cur = "pool" THEN ReadBlock ELSE priceBlock
          /\ LET price == TokenPrice(RawOf(cur, chain[ReadBlock]), loc.d0, loc.d1)
                 l == WithPrice(loc, price)
             IN  IF PoolAfter(cur) # ""
                 THEN /\ cur' = PoolAfter(cur)
                      /\ loc' = l
                      /\ pc' = "token0"
                      /\ UNCHANGED <<res>>
                 ELSE LET v == Valuation(l, priceLower, priceUpper)
                      IN  /\ cur' = cur
                          /\ IF Truthy(call.blockNumber)
                             THEN /\ res' = ResultAt(v, call.blockNumber)
                                  /\ loc' = l
                                  /\ pc' = "done"
                             ELSE /\ res' = res
                                  /\ loc' = [l EXCEPT !.value = v]
                                  /\ pc' = "blockNumber"
          /\ UNCHANGED failures
       \/ Rejected("priceSlot0", "blockNumber")
    /\ UNCHANGED <<mathVars, chainVars, priceLower, priceUpper, call, rangeAtStart>>

\* blockNumber || await this.provider.getBlockNumber(), and the return
ReadBlockNumber ==
    /\ pc = "blockNumber"
    /\ \/ /\ res' = ResultAt(loc.value, head)
          /\ pc' = "done"
          /\ UNCHANGED <<cur, loc, seen, priceBlock, failures>>
       \/ Rejected("blockNumber", "done")
    /\ UNCHANGED <<mathVars, chainVars, priceLower, priceUpper, call, rangeAtStart>>

Running == pc \notin {"idle", "done", "failed"}
\* the call has not yet read this.priceLower and this.priceUpper
BeforeValuation == pc \notin {"idle", "blockNumber", "done", "failed"}

\* the chain mines a block while the call awaits
NewBlock ==
    /\ Running
    /\ head < MaxHead
    /\ head' = head + 1
    /\ \E m \in 1 .. NumMarkets :
          chain' = [b \in 0 .. head + 1 |-> IF b <= head THEN chain[b] ELSE m]
    /\ UNCHANGED <<mathVars, position, dec, priceLower, priceUpper, callVars>>

\* client.priceLower = ...; client.priceUpper = ... while the call awaits, before
\* it has read the two fields (nothing reads them afterwards)
SetRange ==
    /\ BeforeValuation
    /\ \E r \in ConfigRanges \ {<<priceLower, priceUpper>>} :
          /\ priceLower' = r[1]
          /\ priceUpper' = r[2]
    /\ UNCHANGED <<mathVars, chainVars, callVars>>

Init == MathIdle /\ CallInit

Next ==
    \/ Start
    \/ ReadPositions
    \/ ReadSlot0
    \/ ReadCollect
    \/ ReadToken0
    \/ ReadToken1
    \/ ReadDecimals0
    \/ ReadDecimals1
    \/ ReadPriceSlot0
    \/ ReadBlockNumber
    \/ NewBlock
    \/ SetRange

\* one calculateLpValue call on one instance, the chain and the configuration
\* moving while it awaits
Spec == Init /\ [][Next]_vars

\* ------------------------------------------------------------------------
\* Properties
\* ------------------------------------------------------------------------

Applied(f) == fn = f /\ ret # NoReturn
WellFormedPosition(a) == a.liquidity >= 0 /\ a.tickLower < a.tickUpper

AmountsOnABoundCoincide ==
    (Applied("amounts") /\ WellFormedPosition(args)) =>
        LET L == FromInt(args.liquidity)
            c == DecodeSqrtPrice(args.sqrtPriceX96)
            lo == SqrtPriceAtTick(args.tickLower)
            hi == SqrtPriceAtTick(args.tickUpper)
        IN  /\ c = lo =>
                 /\ ret.branch = "within"
                 /\ ret.amount1 = Zero
                 /\ ret.amount0 =
                      ToNumber(FMul(DecPrecision, L,
                                    FSub(DecPrecision, FDiv(DecPrecision, One, lo),
                                                       FDiv(DecPrecision, One, hi))))
            /\ c = hi =>
                 /\ ret.branch = "within"
                 /\ ret.amount0 = Zero
                 /\ ret.amount1 = ToNumber(FMul(DecPrecision, L, FSub(DecPrecision, hi, lo)))

\* C2: for a position with liquidity >= 0 and tickLower < tickUpper and a pool
\* whose tick is the floor tick of its price, both amounts of
\* getPositionAmounts are >= 0, whichever branch is taken.
C2_AmountsNonNegative ==
    (Applied("amounts") /\ WellFormedPosition(args)) =>
        ret.amount0[1] >= 0 /\ ret.amount1[1] >= 0

\* the pool's tick is the position's upper tick and its price is above that
\* tick's price
C2_TickOnUpperBound ==
    /\ Applied("amounts") /\ WellFormedPosition(args) /\ args.liquidity > 0
    /\ TickOf(args.sqrtPriceX96) = args.tickUpper
    /\ FGt(DecodeSqrtPrice(args.sqrtPriceX96), SqrtPriceAtTick(args.tickUpper))

\* C8: the decimal adjustment with (d0, d1) followed by the one with (d1, d0)
\* gives the price back exactly; the adjustment multiplies by 10^(d0 - d1) when
\* d0 >= d1, divides by 10^(d1 - d0) otherwise, and is the identity when d0 = d1.
C8_AdjustRoundTrips ==
    Applied("adjust") =>
        /\ ret.back = args.price
        /\ ret.adjusted =
             <<args.price[1], args.price[2] + args.decimals0 - args.decimals1>>
        /\ args.decimals0 = args.decimals1 => ret.adjusted = args.price

\* decimals0 = 18, decimals1 = 6: a price other than 1 was multiplied by 10^12
\* and divided back
C8_Witness ==
    /\ Applied("adjust")
    /\ args.decimals0 = 18 /\ args.decimals1 = 6
    /\ args.price # One
    /\ ret.adjusted = <<args.price[1], args.price[2] + 12>>
    /\ ret.back = args.price

\* the liquidity amountX alone implies between the prices c and hi
ImpliedByX(amountX, c, hi) == NDiv(NMul(amountX, NMul(hi, c)), NSub(hi, c))
\* the liquidity amountY alone implies between the prices lo and c
ImpliedByY(amountY, lo, c) == NDiv(amountY, NSub(c, lo))

\* C9: calculateV3Liquidity has three exclusive and exhaustive branches, ties
\* going to the single-asset ones: c <= lo uses amountX only, c >= hi uses
\* amountY only, and for lo < c < hi the liquidity is the smaller of the one
\* amountX implies and the one amountY implies, so it exceeds neither.
C9_LiquidityFromAmounts ==
    Applied("liquidity") =>
        LET c == args.sqrtPriceCurrent
            lo == args.sqrtPriceLower
            hi == args.sqrtPriceUpper
        IN  /\ FLeq(c, lo) => ret.liquidity = ImpliedByX(args.amountX, lo, hi)
            /\ FGeq(c, hi) => ret.liquidity = ImpliedByY(args.amountY, lo, hi)
            /\ (FLt(lo, c) /\ FLt(c, hi)) =>
                 /\ ret.liquidity \in {ImpliedByX(args.amountX, c, hi),
                                        ImpliedByY(args.amountY, lo, c)}
                 /\ FLeq(ret.liquidity, ImpliedByX(args.amountX, c, hi))
                 /\ FLeq(ret.liquidity, ImpliedByY(args.amountY, lo, c))

\* within the range, amountY implies less liquidity than amountX and decides
C9_Witness ==
    /\ Applied("liquidity")
    /\ FLt(args.sqrtPriceLower, args.sqrtPriceCurrent)
    /\ FLt(args.sqrtPriceCurrent, args.sqrtPriceUpper)
    /\ FLt(ImpliedByY(args.amountY, args.sqrtPriceLower, args.sqrtPriceCurrent),
           ImpliedByX(args.amountX, args.sqrtPriceCurrent, args.sqrtPriceUpper))
    /\ ret.liquidity =
         ImpliedByY(args.amountY, args.sqrtPriceLower, args.sqrtPriceCurrent)
    /\ ret.liquidity # Zero

\* C3: if the fee simulation fails while the other reads succeed, the call
\* still returns: unclaimedFees is 0, positionValue is the value it has with
\* any outcome of the simulation, and totalValue equals positionValue.
C3_FeeFailureDegrades ==
    ("collect" \in failures) =>
        /\ pc = "failed" => failures # {"collect"}
        /\ pc = "done" =>
             /\ res.unclaimedFees = Zero
             /\ res.totalValue = res.positionValue
             /\ \A owed \in 0 .. MaxFee :
                  res.positionValue =
                    Valuation([loc EXCEPT !.feeX = ToNumber(FromInt(owed)),
                                          !.feeY = ToNumber(FromInt(owed))],
                              priceLower, priceUpper).positionValue

\* a call whose fee simulation failed returned a position value
C3_Witness ==
    /\ pc = "done"
    /\ failures = {"collect"}
    /\ res.positionValue # Zero
    /\ res.unclaimedFees = Zero

\* C4: the result of a call is determined by its own inputs only: no write to
\* priceLower / priceUpper between its start and its return changes it.
C4_ResultIgnoresFieldWrites ==
    pc = "done" =>
        res = ResultAt(Valuation(loc, rangeAtStart[1], rangeAtStart[2]), res.blockNumber)

\* a call returned after its instance's price window was written
C4_WrittenDuringCall ==
    pc = "done" /\ rangeAtStart # <<priceLower, priceUpper>>

\* C5: all chain reads of one call are served at one and the same block, and
\* the blockNumber of the result is that block: the target block when one is
\* given (0 included), the head at the time of the call otherwise.
C5_SingleSnapshot ==
    pc = "done" =>
        /\ seen = {res.blockNumber}
        /\ call.blockNumber # NoBlock => res.blockNumber = call.blockNumber

\* a call returned after the head moved under its reads
C5_HeadMoved ==
    pc = "done" /\ Cardinality(seen) > 1

\* C6: a valuation whose fetched position has tickLower >= tickUpper or a
\* negative liquidity never returns a result.
C6_MalformedInputFails ==
    (position.tickLower >= position.tickUpper \/ position.liquidity < 0) =>
        pc # "done"

\* C7: without an override pool tokenXPrice is the valued pool's own adjusted
\* price and tokenYPrice is 1; with one, the asset's price is the adjusted
\* price of the override pool at the block the valued pool's price was read at.
C7_UsdPriceSources ==
    pc = "done" =>
        /\ res.tokenXPrice =
             IF call.poolXU
             THEN TokenPrice(RawOf("xu", chain[priceBlock]), dec["X"], dec["U"])
             ELSE res.tokenPrice
        /\ res.tokenYPrice =
             IF call.poolYU
             THEN TokenPrice(RawOf("yu", chain[priceBlock]), dec["Y"], dec["U"])
             ELSE One

\* the source of each price as the code picks it, whatever block each read
\* was served at
UsdPriceSourceSelection ==
    pc = "done" =>
        /\ ~call.poolXU => res.tokenXPrice = res.tokenPrice
        /\ ~call.poolYU => res.tokenYPrice = One
        /\ call.poolXU =>
             \E b \in seen :
                res.tokenXPrice = TokenPrice(RawOf("xu", chain[b]), dec["X"], dec["U"])
        /\ call.poolYU =>
             \E b \in seen :
                res.tokenYPrice = TokenPrice(RawOf("yu", chain[b]), dec["Y"], dec["U"])

\* C10: the failure of a required read fails the whole call: nothing is
\* returned, no default stands in for the missing value, no read is tried
\* again; only the fee simulation's failure is absorbed.
C10_RequiredReadFailureIsFatal ==
    /\ (failures \ {"collect"} # {}) => pc = "failed"
    /\ pc = "failed" =>
         /\ res = NoResult
         /\ loc = NoLocals
         /\ Cardinality(failures \ {"collect"}) = 1
    /\ pc = "done" => failures \subseteq {"collect"}

\* a call failed on the price read of a pool, after an absorbed fee failure
C10_Witness ==
    /\ pc = "failed"
    /\ failures = {"collect", "priceSlot0"}
    /\ res = NoResult

====
